---- MODULE Spec2Model ----
(***************************************************************************)
(* Model of csv_to_opentrons_generator.py: the pipeline that turns a CSV   *)
(* table of per-well reagent volumes into one Opentrons protocol file per  *)
(* segment of at most 28 wells.                                            *)
(*                                                                         *)
(* Representation.                                                         *)
(*   - a column name is a sequence of one-character strings, so that       *)
(*     str.lower() and the substring test `pattern in name` are computed;  *)
(*   - a volume is a rational <<num, den>> in lowest terms with den > 0;   *)
(*     <<0, 0>> is NaN (an empty CSV cell), for which every comparison is  *)
(*     false, as in Python;                                                *)
(*   - a well label f"{letter}{number}" is the pair <<letter, number>>;    *)
(*   - a DataFrame is [columns, rows], a row is [idx, cells] where idx is  *)
(*     the pandas index label (0-based) and cells[j] is the value in       *)
(*     column j.  Python lists are 0-based, TLA+ sequences 1-based: list   *)
(*     element k is sequence element k + 1.                                *)
(***************************************************************************)
EXTENDS Integers, Sequences, FiniteSets, TLC

\* ------------------------------------------------------------- bounds ---
\* Largest number of data rows of an input table (28 + 28 + 1: three segments).
MaxRows == 57

\* ---------------------------------------------------- program constants ---
\* def segment_data(df, max_wells=28)
DefaultMaxWells == 28
\* select_pipette: if volume <= 20
PipetteThreshold == 20
\* cols = list(range(1, 13))
GridCols == 12

\* rows = ['A', 'B', 'C', 'D', 'E', 'F', 'G', 'H']
GridRows == <<"A", "B", "C", "D", "E", "F", "G", "H">>

\* LIQUID_DEFINITIONS[reagent]['tube_position']
TubePosition ==
    [r \in {"glycine", "nacl", "tris", "water"} |->
        CASE r = "glycine" -> "A1"
          [] r = "nacl"    -> "A2"
          [] r = "tris"    -> "B1"
          [] r = "water"   -> "B2"]

\* OUTPUT_FILE_PATH: directory, base name, extension
OutputBase == "Generated_Protocol"

\* ------------------------------------------------------------ strings ---
UpperAlpha ==
    <<"A","B","C","D","E","F","G","H","I","J","K","L","M",
      "N","O","P","Q","R","S","T","U","V","W","X","Y","Z">>
LowerAlpha ==
    <<"a","b","c","d","e","f","g","h","i","j","k","l","m",
      "n","o","p","q","r","s","t","u","v","w","x","y","z">>

\* str.lower() on one character
LowerChar(c) ==
    IF \E i \in 1..26 : UpperAlpha[i] = c
      THEN LowerAlpha[CHOOSE i \in 1..26 : UpperAlpha[i] = c]
      ELSE c

\* str.lower()
Lower(s) == [i \in 1..Len(s) |-> LowerChar(s[i])]

\* the Python test `pat in s` on strings
Contains(pat, s) ==
    \E i \in 0..(Len(s) - Len(pat)) : SubSeq(s, i + 1, i + Len(pat)) = pat

\* ------------------------------------------------------------ volumes ---
NaN == <<0, 0>>
\* volume > k   (false for NaN)
VolGt(v, k) == v[2] # 0 /\ v[1] > k * v[2]
\* volume <= k  (false for NaN)
VolLeq(v, k) == v[2] # 0 /\ v[1] <= k * v[2]
\* a < b on two numbers (the sort order of groupby keys)
VolLess(a, b) == a[1] * b[2] < b[1] * a[2]
IsNaN(v) == v[2] = 0

Min(a, b) == IF a <= b THEN a ELSE b

\* --------------------------------------------------------- DataFrames ---
\* position of the column called `name` (df[name])
ColIndex(df, name) ==
    CHOOSE j \in 1..Len(df.columns) :
        /\ df.columns[j] = name
        /\ \A k \in 1..(j - 1) : df.columns[k] # name

\* df[name] of one row
Cell(df, row, name) == row.cells[ColIndex(df, name)]

\* [col for col in df.columns if test(col)] for a substring test on col.lower()
ColsContainingAny(df, tokens) ==
    SelectSeq(df.columns, LAMBDA col : \E t \in tokens : Contains(t, Lower(col)))

\* df.iloc[a:b]: positions a .. b-1, clamped to the length
ILoc(df, a, b) ==
    [columns |-> df.columns, rows |-> SubSeq(df.rows, a + 1, Min(b, Len(df.rows)))]

\* df.reset_index(drop=True): index labels become 0 .. len-1
ResetIndex(df) ==
    [columns |-> df.columns,
     rows    |-> [k \in 1..Len(df.rows) |-> [idx |-> k - 1, cells |-> df.rows[k].cells]]]

\* -------------------------------------------------- filter_valid_wells ---
TokWater == <<"w","a","t","e","r">>

\* water_cols = [col for col in df.columns if 'water' in col.lower()]
WaterCols(df) == ColsContainingAny(df, {TokWater})

\* mutant: the filter is df[water_col] >= 0, so zero-water rows stay
filter_valid_wells_keep_zero(df) ==
    IF WaterCols(df) = <<>>
      THEN df
      ELSE LET water_col == WaterCols(df)[1]
           IN  [columns |-> df.columns,
                rows    |-> SelectSeq(df.rows,
                                LAMBDA row : ~IsNaN(Cell(df, row, water_col))
                                             /\ ~VolLess(Cell(df, row, water_col), <<0, 1>>))]

\* the DataFrame filter_valid_wells returns
filter_valid_wells(df) ==
    IF WaterCols(df) = <<>>
      THEN df
      ELSE LET water_col == WaterCols(df)[1]
           IN  [columns |-> df.columns,
                rows    |-> SelectSeq(df.rows,
                                LAMBDA row : VolGt(Cell(df, row, water_col), 0))]

\* print("Warning: No water volume column found")
filter_warns(df) == WaterCols(df) = <<>>

\* -------------------------------------------------------- segment_data ---
RECURSIVE SegmentLoop(_, _, _, _)
\* for i in range(0, total_rows, max_wells): segments.append(df.iloc[i:i+max_wells])
SegmentLoop(df, i, max_wells, segments) ==
    IF i >= Len(df.rows)
      THEN segments
      ELSE SegmentLoop(df, i + max_wells, max_wells,
                       Append(segments, ILoc(df, i, i + max_wells)))

RECURSIVE SegmentLoopOverlap(_, _, _, _)
\* mutant: the slice is one row too long (df.iloc[i:i+max_wells+1])
SegmentLoopOverlap(df, i, max_wells, segments) ==
    IF i >= Len(df.rows)
      THEN segments
      ELSE SegmentLoopOverlap(df, i + max_wells, max_wells,
                              Append(segments, ILoc(df, i, i + max_wells + 1)))

segment_data_overlap(df, max_wells) == SegmentLoopOverlap(df, 0, max_wells, <<>>)

RECURSIVE SegmentLoopTrailing(_, _, _, _)
\* mutant: the loop runs over range(0, total_rows + 1, max_wells)
SegmentLoopTrailing(df, i, max_wells, segments) ==
    IF i >= Len(df.rows) + 1
      THEN segments
      ELSE SegmentLoopTrailing(df, i + max_wells, max_wells,
                               Append(segments, ILoc(df, i, i + max_wells)))

segment_data_trailing(df, max_wells) == SegmentLoopTrailing(df, 0, max_wells, <<>>)

segment_data(df, max_wells) == SegmentLoop(df, 0, max_wells, <<>>)

\* -------------------------------------------------- get_well_positions ---
TokWell     == <<"w","e","l","l">>
TokPosition == <<"p","o","s","i","t","i","o","n">>
TokPos      == <<"p","o","s">>

\* mutant: col_idx = well_idx % len(cols), without the + 1
WellLabelZeroBased(well_idx) ==
    IF well_idx < Len(GridRows) * GridCols
      THEN <<GridRows[(well_idx \div GridCols) + 1], well_idx % GridCols>>
      ELSE <<"X", well_idx>>

\* wells.append(f"{rows[row_idx]}{col_idx}") / wells.append(f"X{well_idx}")
WellLabel(well_idx) ==
    IF well_idx < Len(GridRows) * GridCols
      THEN <<GridRows[(well_idx \div GridCols) + 1], (well_idx % GridCols) + 1>>
      ELSE <<"X", well_idx>>

get_well_positions(df) ==
    LET position_cols == ColsContainingAny(df, {TokWell, TokPosition, TokPos})
    IN  IF position_cols # <<>>
          THEN [k \in 1..Len(df.rows) |-> Cell(df, df.rows[k], position_cols[1])]
          ELSE [k \in 1..Len(df.rows) |-> WellLabel(k - 1)]

\* ---------------------------------------------------- identify_columns ---
\* patterns, in dict order
Liquids == <<"glycine", "nacl", "tris", "water">>

Patterns ==
    [l \in {"glycine", "nacl", "tris", "water"} |->
        CASE l = "glycine" -> {<<"g","l","y">>, <<"2",".","4","m">>,
                               <<"g","l","y","c","i","n","e">>}
          [] l = "nacl"    -> {<<"n","a","c","l">>, <<"5","m">>, <<"s","a","l","t">>}
          [] l = "tris"    -> {<<"t","r","i","s">>, <<"b","u","f","f","e","r">>,
                               <<"0",".","5","m">>}
          [] l = "water"   -> {TokWater, <<"h","2","o">>}]

\* if any(pattern in col.lower() for pattern in pattern_list)
ColMatches(col, pattern_list) == \E p \in pattern_list : Contains(p, Lower(col))

RECURSIVE ScanColumnsNoBreak(_, _, _)
\* mutant: the loop has no break, so the last matching column wins
ScanColumnsNoBreak(cols, j, pattern_list) ==
    IF j > Len(cols) THEN <<>>
    ELSE IF ScanColumnsNoBreak(cols, j + 1, pattern_list) # <<>>
      THEN ScanColumnsNoBreak(cols, j + 1, pattern_list)
    ELSE IF ColMatches(cols[j], pattern_list) THEN <<cols[j]>>
    ELSE <<>>

RECURSIVE ScanColumns(_, _, _)
\* for col in df.columns: if ...: columns[liquid] = col; break
\* the result is <<>> when the loop ends without a match, <<col>> otherwise
ScanColumns(cols, j, pattern_list) ==
    IF j > Len(cols) THEN <<>>
    ELSE IF ColMatches(cols[j], pattern_list) THEN <<cols[j]>>
    ELSE ScanColumns(cols, j + 1, pattern_list)

\* the dict identify_columns returns: liquid -> column name
identify_columns(df) ==
    LET found == {Liquids[i] : i \in {k \in 1..Len(Liquids) :
                        ScanColumns(df.columns, 1, Patterns[Liquids[k]]) # <<>>}}
    IN  [l \in found |-> ScanColumns(df.columns, 1, Patterns[l])[1]]

\* ------------------------------------------------------ select_pipette ---
\* mutant: the test is `if volume < 20`
select_pipette_strict(volume) ==
    IF ~IsNaN(volume) /\ VolLess(volume, <<PipetteThreshold, 1>>)
      THEN <<"pipette_right", "p20_single_gen2">>
      ELSE <<"pipette_left", "p300_single_gen2">>

select_pipette(volume) ==
    IF VolLeq(volume, PipetteThreshold)
      THEN <<"pipette_right", "p20_single_gen2">>
      ELSE <<"pipette_left", "p300_single_gen2">>

\* ----------------------------------------- group_by_reagent_and_volume ---
\* mutant: the reagents are walked in the order of the patterns dict
reagent_order_as_patterns == <<"glycine", "nacl", "tris", "water">>

reagent_order == <<"tris", "nacl", "glycine", "water">>

RECURSIVE SortVolumes(_)
\* the keys of df.groupby(col) in iteration order: ascending
SortVolumes(S) ==
    IF S = {} THEN <<>>
    ELSE LET m == CHOOSE x \in S : \A y \in S \ {x} : VolLess(x, y)
         IN  <<m>> \o SortVolumes(S \ {m})

\* df.groupby(col_name): the distinct values of the column, NaN keys dropped
GroupKeys(df, col_name) ==
    SortVolumes({Cell(df, df.rows[k], col_name) : k \in 1..Len(df.rows)} \ {NaN})

\* group.index: the index labels of the rows of one group, in row order
GroupIndex(df, col_name, volume) ==
    LET members == SelectSeq(df.rows, LAMBDA row : Cell(df, row, col_name) = volume)
    IN  [k \in 1..Len(members) |-> members[k].idx]

RECURSIVE VolumeLoopKeepZero(_, _, _, _, _, _)
\* mutant: the test is `if volume < 0`, so a zero volume gets a request
VolumeLoopKeepZero(df, reagent, col_name, well_positions, keys, k) ==
    IF k > Len(keys) THEN <<>>
    ELSE LET volume == keys[k]
             index  == GroupIndex(df, col_name, volume)
             wells  == [i \in 1..Len(index) |-> well_positions[index[i] + 1]]
             rest   == VolumeLoopKeepZero(df, reagent, col_name, well_positions,
                                          keys, k + 1)
         IN  IF VolLess(volume, <<0, 1>>)
               THEN rest
               ELSE <<[reagent     |-> reagent,
                       volume      |-> volume,
                       source_tube |-> TubePosition[reagent],
                       wells       |-> wells,
                       count       |-> Len(wells)]>> \o rest

RECURSIVE VolumeLoop(_, _, _, _, _, _)
\* for volume, group in volume_groups: ... transfers.append({...})
VolumeLoop(df, reagent, col_name, well_positions, keys, k) ==
    IF k > Len(keys) THEN <<>>
    ELSE LET volume == keys[k]
             index  == GroupIndex(df, col_name, volume)
             wells  == [i \in 1..Len(index) |-> well_positions[index[i] + 1]]
             rest   == VolumeLoop(df, reagent, col_name, well_positions, keys, k + 1)
         IN  IF VolLeq(volume, 0)
               THEN rest
               ELSE <<[reagent     |-> reagent,
                       volume      |-> volume,
                       source_tube |-> TubePosition[reagent],
                       wells       |-> wells,
                       count       |-> Len(wells)]>> \o rest

RECURSIVE ReagentLoop(_, _, _, _)
\* for reagent in reagent_order: if reagent not in columns: continue
ReagentLoop(df, columns, well_positions, r) ==
    IF r > Len(reagent_order) THEN <<>>
    ELSE LET reagent == reagent_order[r]
             rest    == ReagentLoop(df, columns, well_positions, r + 1)
         IN  IF reagent \notin DOMAIN columns
               THEN rest
               ELSE VolumeLoop(df, reagent, columns[reagent], well_positions,
                               GroupKeys(df, columns[reagent]), 1) \o rest

group_by_reagent_and_volume(df, columns, well_positions) ==
    ReagentLoop(df, columns, well_positions, 1)

\* -------------------------------------------------------------- inputs ---
\* The header rows of the input tables: each column has a name and holds either
\* volumes ("vol") or explicit well labels ("pos").
\* Well, Gly_2.4M, NaCl_5M, Tris, Water
HeaderPlate ==
    <<[name |-> <<"W","e","l","l">>, kind |-> "pos"],
      [name |-> <<"G","l","y","_","2",".","4","M">>, kind |-> "vol"],
      [name |-> <<"N","a","C","l","_","5","M">>, kind |-> "vol"],
      [name |-> <<"T","r","i","s">>, kind |-> "vol"],
      [name |-> <<"W","a","t","e","r">>, kind |-> "vol"]>>

\* V_gly, V_NaCl, V_water
HeaderShort ==
    <<[name |-> <<"V","_","g","l","y">>, kind |-> "vol"],
      [name |-> <<"V","_","N","a","C","l">>, kind |-> "vol"],
      [name |-> <<"V","_","w","a","t","e","r">>, kind |-> "vol"]>>

\* Salt, NaCl, H2O, Water, Buffer
HeaderSalt ==
    <<[name |-> <<"S","a","l","t">>, kind |-> "vol"],
      [name |-> <<"N","a","C","l">>, kind |-> "vol"],
      [name |-> <<"H","2","O">>, kind |-> "vol"],
      [name |-> <<"W","a","t","e","r">>, kind |-> "vol"],
      [name |-> <<"B","u","f","f","e","r">>, kind |-> "vol"]>>

\* Glycine, NaCl
HeaderNoWater ==
    <<[name |-> <<"G","l","y","c","i","n","e">>, kind |-> "vol"],
      [name |-> <<"N","a","C","l">>, kind |-> "vol"]>>

\* WATER_ul, glycine, tris, nacl
HeaderReversed ==
    <<[name |-> <<"W","A","T","E","R","_","u","l">>, kind |-> "vol"],
      [name |-> <<"g","l","y","c","i","n","e">>, kind |-> "vol"],
      [name |-> <<"t","r","i","s">>, kind |-> "vol"],
      [name |-> <<"n","a","c","l">>, kind |-> "vol"]>>

\* Tris_0.5M, Water
HeaderMolar ==
    <<[name |-> <<"T","r","i","s","_","0",".","5","M">>, kind |-> "vol"],
      [name |-> <<"W","a","t","e","r">>, kind |-> "vol"]>>

Headers == {HeaderPlate, HeaderShort, HeaderSalt, HeaderNoWater, HeaderReversed, HeaderMolar}

\* The volumes a column cycles through, row after row.
CycleAlternating == << <<5, 1>>, <<10, 1>> >>
CycleMixed ==
    << <<5, 1>>, <<0, 1>>, <<20, 1>>, <<200001, 10000>>, <<-3, 1>>, <<25, 1>>, NaN >>
CycleNonPositive == << <<0, 1>>, <<-3, 1>> >>
CycleThree == << <<12, 1>>, <<0, 1>>, <<5, 1>> >>

Cycles == {CycleAlternating, CycleMixed, CycleNonPositive, CycleThree}

\* The value of column j in data row i (i from 1) of the table built from
\* header h and cycle cyc: an explicit label column numbers the plate's wells
\* over the whole table, a volume column walks the cycle with stride j from
\* offset j - 1.
CellValue(h, cyc, i, j) ==
    IF h[j].kind = "pos"
      THEN <<GridRows[(((i - 1) \div 12) % 8) + 1], ((i - 1) % 12) + 1>>
      ELSE cyc[(((i - 1) * j + (j - 1)) % Len(cyc)) + 1]

\* The DataFrame pd.read_csv returns for that table with n data rows.
Table(h, cyc, n) ==
    [columns |-> [j \in 1..Len(h) |-> h[j].name],
     rows    |-> [i \in 1..n |->
                    [idx   |-> i - 1,
                     cells |-> [j \in 1..Len(h) |-> CellValue(h, cyc, i, j)]]]]

EmptyDf == [columns |-> <<>>, rows |-> <<>>]

\* The file at CSV_FILE_PATH: absent, present but not parseable, or a table.
MissingFile    == [exists |-> FALSE, readable |-> FALSE, table |-> EmptyDf]
UnreadableFile == [exists |-> TRUE,  readable |-> FALSE, table |-> EmptyDf]
TableFile(h, cyc, n) ==
    [exists |-> TRUE, readable |-> TRUE, table |-> Table(h, cyc, n)]

\* ---------------------------------------------------- program emission ---
\* generate_protocol_header: the parts of the header that depend on the segment
generate_protocol_header(segment_num, total_segments, wells_in_segment) ==
    [protocol_name |-> IF total_segments > 1
                         THEN <<"Auto-Generated Cloud Point Protocol",
                                " - Segment ", segment_num, "/", total_segments>>
                         ELSE <<"Auto-Generated Cloud Point Protocol">>,
     description   |-> <<"(Segment ", segment_num, ": ", wells_in_segment, " wells)">>]

\* the "# PROTOCOL STEPS - SEGMENT i/n (k wells)" line
StepsBanner(segment_num, total_segments, wells_in_segment) ==
    <<"SEGMENT ", segment_num, "/", total_segments, " (", wells_in_segment, " wells)">>

\* mutant: every segment is written to OUTPUT_FILE_PATH
SegmentFilePathShared(segment_num, total_segments) == <<OutputBase, ".py">>

\* the segment's output path
SegmentFilePath(segment_num, total_segments) ==
    IF total_segments > 1
      THEN <<OutputBase, "_Segment_", segment_num, ".py">>
      ELSE <<OutputBase, ".py">>

\* generate_transfer_step: the transfer call written for one request
generate_transfer_step(step_num, volume, source_tube, dest_wells) ==
    LET pip == select_pipette(volume)
    IN  [step_num     |-> step_num,
         pipette      |-> pip[1],
         pipette_type |-> pip[2],
         volume       |-> volume,
         source       |-> <<source_tube>> \o
                            [k \in 1..(Len(dest_wells) - 1) |-> source_tube],
         dest         |-> dest_wells,
         liquid_class |-> <<"transfer_step_", step_num>>]

RECURSIVE StepLoop(_, _, _)
\* for transfer in transfers: if transfer['count'] > 0: ...; step_counter += 1
StepLoop(transfers, k, step_counter) ==
    IF k > Len(transfers) THEN <<>>
    ELSE IF transfers[k].count > 0
      THEN <<generate_transfer_step(step_counter, transfers[k].volume,
                                    transfers[k].source_tube, transfers[k].wells)>>
           \o StepLoop(transfers, k + 1, step_counter + 1)
      ELSE StepLoop(transfers, k + 1, step_counter)

\* ------------------------------------------------------- state machine ---
VARIABLES
    pc,                \* the statement main / generate_full_protocol is at
    csv,               \* the file at CSV_FILE_PATH
    df,                \* read_csv_data's result
    df_is_none,        \* df is None
    df_filtered,       \* filter_valid_wells's result
    warned,            \* the missing-water-column warning was printed
    columns,           \* identify_columns's result
    segments,          \* segment_data's result
    total_segments,    \* len(segments)
    segment_idx,       \* the enumerate() index of the segment being processed
    segment_file_path, \* the current segment's output path
    protocol_code,     \* the current segment's header and banner
    df_segment,        \* generate_protocol_steps_for_segment's df_segment
    well_positions,    \* its well_positions
    transfers,         \* its transfers
    steps,             \* its steps
    generated_files,   \* the paths written so far
    fs,                \* the output directory: a set of [path, code]
    returned,          \* generate_full_protocol's return value: "", "None", "list"
    report             \* what main printed last: "", "not_found", "completed", "failed"

vars == <<pc, csv, df, df_is_none, df_filtered, warned, columns, segments,
          total_segments, segment_idx, segment_file_path, protocol_code,
          df_segment, well_positions, transfers, steps, generated_files, fs,
          returned, report>>

NoColumns == [l \in {} |-> <<>>]

Init ==
    /\ \/ csv = MissingFile
       \/ csv = UnreadableFile
       \/ \E h \in Headers, cyc \in Cycles, n \in 0..MaxRows :
             csv = TableFile(h, cyc, n)
    /\ pc = "main"
    /\ df = EmptyDf
    /\ df_is_none = FALSE
    /\ df_filtered = EmptyDf
    /\ warned = FALSE
    /\ columns = NoColumns
    /\ segments = <<>>
    /\ total_segments = 0
    /\ segment_idx = 0
    /\ segment_file_path = <<>>
    /\ protocol_code = <<>>
    /\ df_segment = EmptyDf
    /\ well_positions = <<>>
    /\ transfers = <<>>
    /\ steps = <<>>
    /\ generated_files = <<>>
    /\ fs = {}
    /\ returned = ""
    /\ report = ""

\* main: if not os.path.exists(CSV_FILE_PATH): ...; return
MainCheckInput ==
    /\ pc = "main"
    /\ IF csv.exists
         THEN pc' = "read" /\ report' = report
         ELSE pc' = "done" /\ report' = "not_found"
    /\ UNCHANGED <<csv, df, df_is_none, df_filtered, warned, columns, segments,
                   total_segments, segment_idx, segment_file_path, protocol_code,
                   df_segment, well_positions, transfers, steps, generated_files,
                   fs, returned>>

\* df = read_csv_data(csv_path); if df is None: return None
ReadCsvData ==
    /\ pc = "read"
    /\ IF csv.readable
         THEN /\ df' = csv.table
              /\ df_is_none' = FALSE
              /\ returned' = returned
              /\ pc' = "filter"
         ELSE /\ df' = df
              /\ df_is_none' = TRUE
              /\ returned' = "None"
              /\ pc' = "report"
    /\ UNCHANGED <<csv, df_filtered, warned, columns, segments, total_segments,
                   segment_idx, segment_file_path, protocol_code, df_segment,
                   well_positions, transfers, steps, generated_files, fs, report>>

\* df_filtered = filter_valid_wells(df)
FilterValidWells ==
    /\ pc = "filter"
    /\ df_filtered' = filter_valid_wells(df)
    /\ warned' = filter_warns(df)
    /\ pc' = "identify"
    /\ UNCHANGED <<csv, df, df_is_none, columns, segments, total_segments,
                   segment_idx, segment_file_path, protocol_code, df_segment,
                   well_positions, transfers, steps, generated_files, fs,
                   returned, report>>

\* columns = identify_columns(df_filtered)
IdentifyColumns ==
    /\ pc = "identify"
    /\ columns' = identify_columns(df_filtered)
    /\ pc' = "segment"
    /\ UNCHANGED <<csv, df, df_is_none, df_filtered, warned, segments,
                   total_segments, segment_idx, segment_file_path, protocol_code,
                   df_segment, well_positions, transfers, steps, generated_files,
                   fs, returned, report>>

\* segments = segment_data(df_filtered); total_segments = len(segments);
\* generated_files = []; the for loop starts, or ends at once
SegmentData ==
    /\ pc = "segment"
    /\ segments' = segment_data(df_filtered, DefaultMaxWells)
    /\ total_segments' = Len(segments')
    /\ generated_files' = <<>>
    /\ segment_idx' = 0
    /\ pc' = IF Len(segments') > 0 THEN "header" ELSE "return"
    /\ UNCHANGED <<csv, df, df_is_none, df_filtered, warned, columns,
                   segment_file_path, protocol_code, df_segment, well_positions,
                   transfers, steps, fs, returned, report>>

\* the loop body up to the call of generate_protocol_steps_for_segment
BeginSegment ==
    /\ pc = "header"
    /\ LET segment_num      == segment_idx + 1
           wells_in_segment == Len(segments[segment_idx + 1].rows)
       IN  /\ segment_file_path' = SegmentFilePath(segment_num, total_segments)
           /\ protocol_code' =
                [header |-> generate_protocol_header(segment_num, total_segments,
                                                     wells_in_segment),
                 banner |-> StepsBanner(segment_num, total_segments,
                                        wells_in_segment)]
    /\ df_segment' = segments[segment_idx + 1]
    /\ well_positions' = <<>>
    /\ transfers' = <<>>
    /\ steps' = <<>>
    /\ pc' = "wells"
    /\ UNCHANGED <<csv, df, df_is_none, df_filtered, warned, columns, segments,
                   total_segments, segment_idx, generated_files, fs, returned,
                   report>>

\* well_positions = get_well_positions(df_segment);
\* df_segment = df_segment.reset_index(drop=True)
AssignWells ==
    /\ pc = "wells"
    /\ well_positions' = get_well_positions(df_segment)
    /\ df_segment' = ResetIndex(df_segment)
    /\ pc' = "group"
    /\ UNCHANGED <<csv, df, df_is_none, df_filtered, warned, columns, segments,
                   total_segments, segment_idx, segment_file_path, protocol_code,
                   transfers, steps, generated_files, fs, returned, report>>

\* transfers = group_by_reagent_and_volume(df_segment, columns, well_positions)
GroupTransfers ==
    /\ pc = "group"
    /\ transfers' = group_by_reagent_and_volume(df_segment, columns, well_positions)
    /\ pc' = "steps"
    /\ UNCHANGED <<csv, df, df_is_none, df_filtered, warned, columns, segments,
                   total_segments, segment_idx, segment_file_path, protocol_code,
                   df_segment, well_positions, steps, generated_files, fs,
                   returned, report>>

\* step_counter = 1; for transfer in transfers: ...; return steps
GenerateSteps ==
    /\ pc = "steps"
    /\ steps' = StepLoop(transfers, 1, 1)
    /\ pc' = "write"
    /\ UNCHANGED <<csv, df, df_is_none, df_filtered, warned, columns, segments,
                   total_segments, segment_idx, segment_file_path, protocol_code,
                   df_segment, well_positions, transfers, generated_files, fs,
                   returned, report>>

\* with open(segment_file_path, 'w') ...: the write succeeds (ok) or raises and
\* is caught; then the loop goes to the next segment or ends
WriteSegment(ok) ==
    /\ pc = "write"
    /\ IF ok
         THEN /\ fs' = {f \in fs : f.path # segment_file_path}
                       \cup {[path |-> segment_file_path,
                              code |-> [header |-> protocol_code.header,
                                        banner |-> protocol_code.banner,
                                        steps  |-> steps]]}
              /\ generated_files' = Append(generated_files, segment_file_path)
         ELSE UNCHANGED <<fs, generated_files>>
    /\ segment_idx' = segment_idx + 1
    /\ pc' = IF segment_idx + 1 < total_segments THEN "header" ELSE "return"
    /\ UNCHANGED <<csv, df, df_is_none, df_filtered, warned, columns, segments,
                   total_segments, segment_file_path, protocol_code, df_segment,
                   well_positions, transfers, steps, returned, report>>

\* return generated_files
ReturnFiles ==
    /\ pc = "return"
    /\ returned' = "list"
    /\ pc' = "report"
    /\ UNCHANGED <<csv, df, df_is_none, df_filtered, warned, columns, segments,
                   total_segments, segment_idx, segment_file_path, protocol_code,
                   df_segment, well_positions, transfers, steps, generated_files,
                   fs, report>>

\* main: if generated_files: ... else: print("Failed to generate protocol")
main_report(ret, files) ==
    IF ret = "list" /\ Len(files) > 0 THEN "completed" ELSE "failed"

MainReport ==
    /\ pc = "report"
    /\ report' = main_report(returned, generated_files)
    /\ pc' = "done"
    /\ UNCHANGED <<csv, df, df_is_none, df_filtered, warned, columns, segments,
                   total_segments, segment_idx, segment_file_path, protocol_code,
                   df_segment, well_positions, transfers, steps, generated_files,
                   fs, returned>>

Next ==
    \/ MainCheckInput
    \/ ReadCsvData
    \/ FilterValidWells
    \/ IdentifyColumns
    \/ SegmentData
    \/ BeginSegment
    \/ AssignWells
    \/ GroupTransfers
    \/ GenerateSteps
    \/ \E ok \in BOOLEAN : WriteSegment(ok)
    \/ ReturnFiles
    \/ MainReport

Spec == Init /\ [][Next]_vars

\* ============================================================ claims ===
\* segment_data has returned in this run
Segmented ==
    pc \in {"header", "wells", "group", "steps", "write", "return"} \/ returned = "list"

\* the validated rows
Validated == df_filtered.rows

\* C1: the segments partition the validated rows exactly: row k of segment s
\* (both counted from 1) is validated row (s-1)*28 + k, the segment sizes add
\* up to the number of validated rows, and every validated row (identified by
\* its index label) occurs at exactly one place of exactly one segment.
C1_SegmentsPartition ==
    Segmented =>
        /\ \A s \in 1..Len(segments) :
              /\ segments[s].columns = df_filtered.columns
              /\ \A k \in 1..Len(segments[s].rows) :
                    /\ (s - 1) * 28 + k <= Len(Validated)
                    /\ segments[s].rows[k] = Validated[(s - 1) * 28 + k]
        /\ \A p \in 1..Len(Validated) :
              Cardinality(UNION {{<<s, k>> : k \in {x \in 1..Len(segments[s].rows) :
                                        segments[s].rows[x].idx = Validated[p].idx}} :
                                 s \in 1..Len(segments)}) = 1

\* C1 witness: two segments were cut from a table that validation shortened
C1_Witness ==
    /\ Segmented
    /\ Len(segments) = 2
    /\ Len(Validated) < Len(df.rows)

\* C2: n validated rows give ceil(n/28) segments (0 for n = 0, 1 for n = 28,
\* sizes 28 and 1 for n = 29); every segment is non-empty with at most 28 rows
\* and every segment but the last has exactly 28.
C2_SegmentCount ==
    Segmented =>
        LET n == Len(Validated)
            c == Len(segments)
        IN  /\ 28 * (c - 1) < n /\ n <= 28 * c
            /\ (n = 0 => segments = <<>>)
            /\ (n = 28 => c = 1)
            /\ (n = 29 => c = 2 /\ Len(segments[1].rows) = 28
                                /\ Len(segments[2].rows) = 1)
            /\ \A s \in 1..c : Len(segments[s].rows) \in 1..28
            /\ \A s \in 1..(c - 1) : Len(segments[s].rows) = 28

\* C2 witness: 29 validated rows were cut into segments of 28 and 1
C2_Witness ==
    /\ Segmented
    /\ Len(Validated) = 29
    /\ Len(segments) = 2

\* ---------------------------------------------------------------------
\* group_by_reagent_and_volume has returned for the current segment
Grouped == pc \in {"steps", "write"}

\* the rows of the segment being processed, as segment_data cut them
SegRows == segments[segment_idx + 1].rows

\* the volume of reagent r in row k (from 1) of the current segment
SegVol(r, k) ==
    LET j == CHOOSE c \in 1..Len(df_filtered.columns) :
                 df_filtered.columns[c] = columns[r]
    IN  SegRows[k].cells[j]

\* the places in `transfers` of the requests of reagent r
TransfersOf(r) == {ti \in 1..Len(transfers) : transfers[ti].reagent = r}

Range(seq) == {seq[i] : i \in 1..Len(seq)}

\* how often x occurs in seq
Occurrences(seq, x) == Cardinality({i \in 1..Len(seq) : seq[i] = x})

\* the source tube configured for each reagent
ConfiguredTube(r) ==
    CASE r = "glycine" -> "A1" [] r = "nacl" -> "A2"
      [] r = "tris" -> "B1" [] r = "water" -> "B2"

\* C3: for every bound reagent, each request carries the reagent's configured
\* tube and a positive volume, and holds the well of exactly the segment's
\* rows that have that volume in the reagent's column (each as often as rows
\* carry that label); every positive volume of the column has exactly one
\* request, so each such row contributes its well to exactly one request; the
\* wells of all requests together are the wells of the rows with volume > 0,
\* and a row with volume <= 0 (or none) contributes to no request.
C3_GroupingCorrect ==
    Grouped =>
        /\ \A ti \in 1..Len(transfers) : transfers[ti].reagent \in DOMAIN columns
        /\ Len(well_positions) = Len(SegRows)
        /\ \A r \in DOMAIN columns :
            LET rows     == 1..Len(SegRows)
                positive == {k \in rows : VolGt(SegVol(r, k), 0)}
            IN  /\ \A ti \in TransfersOf(r) :
                      LET t == transfers[ti]
                      IN  /\ t.source_tube = ConfiguredTube(r)
                          /\ VolGt(t.volume, 0)
                          /\ t.count = Len(t.wells)
                          /\ Range(t.wells) \subseteq Range(well_positions)
                          /\ \A L \in Range(well_positions) :
                                Occurrences(t.wells, L) =
                                    Cardinality({k \in rows :
                                        /\ well_positions[k] = L
                                        /\ SegVol(r, k) = t.volume})
                /\ \A k \in positive :
                      Cardinality({ti \in TransfersOf(r) :
                                      transfers[ti].volume = SegVol(r, k)}) = 1
                /\ UNION {Range(transfers[ti].wells) : ti \in TransfersOf(r)}
                      = {well_positions[k] : k \in positive}
                /\ \A k \in rows \ positive :
                      (\A k2 \in rows \ {k} : well_positions[k2] # well_positions[k])
                          => \A ti \in TransfersOf(r) :
                                well_positions[k] \notin Range(transfers[ti].wells)

\* C3 witness: a later segment of a table that validation shortened is grouped;
\* a bound column holds rows without a positive volume and a request of it
\* collects several wells
C3_Witness ==
    /\ Grouped
    /\ segment_idx >= 1
    /\ Len(Validated) < Len(df.rows)
    /\ \E r \in DOMAIN columns :
          /\ \E k \in 1..Len(SegRows) : ~VolGt(SegVol(r, k), 0)
          /\ \E ti \in TransfersOf(r) : Len(transfers[ti].wells) >= 2

\* the fixed priority of the reagents
Priority(r) ==
    CASE r = "tris" -> 1 [] r = "nacl" -> 2 [] r = "glycine" -> 3 [] r = "water" -> 4

\* the wells of the rows of the current segment whose volume of r is v, in row order
WellsInRowOrder(r, v) ==
    LET ks == SelectSeq([k \in 1..Len(SegRows) |-> k], LAMBDA k : SegVol(r, k) = v)
    IN  [i \in 1..Len(ks) |-> well_positions[ks[i]]]

\* C4: the requests come in the priority order tris, nacl, glycine, water
\* whatever the order of the table's columns; within one reagent there is one
\* request per distinct positive volume, in strictly ascending volume; within
\* one request the wells are in the row order of the segment.
C4_RequestOrder ==
    Grouped =>
        /\ \A ti, tj \in 1..Len(transfers) :
              ti < tj =>
                /\ Priority(transfers[ti].reagent) <= Priority(transfers[tj].reagent)
                /\ transfers[ti].reagent = transfers[tj].reagent
                      => VolLess(transfers[ti].volume, transfers[tj].volume)
        /\ \A r \in DOMAIN columns :
              {transfers[ti].volume : ti \in TransfersOf(r)}
                  = {SegVol(r, k) : k \in {x \in 1..Len(SegRows) : VolGt(SegVol(r, x), 0)}}
        /\ \A ti \in 1..Len(transfers) :
              transfers[ti].wells
                  = WellsInRowOrder(transfers[ti].reagent, transfers[ti].volume)

\* C4 witness: the table's first column is the water column and tris comes
\* later, yet tris is served first; a reagent has several volumes and a request
\* several wells
C4_Witness ==
    /\ Grouped
    /\ {"tris", "water"} \subseteq DOMAIN columns
    /\ columns["water"] = df_filtered.columns[1]
    /\ Len(transfers) >= 4
    /\ transfers[1].reagent = "tris"
    /\ transfers[2].reagent = "tris"
    /\ Len(transfers[1].wells) >= 2

\* get_well_positions has returned for the current segment
Positioned == pc \in {"group", "steps", "write"}

\* no column name contains 'well', 'position' or 'pos'
NoPositionColumn ==
    \A j \in 1..Len(df_filtered.columns) :
        \A tok \in {TokWell, TokPosition, TokPos} :
            ~Contains(tok, Lower(df_filtered.columns[j]))

\* C5: without a position column, row k (from 0) of every segment gets grid
\* slot k in row-major order: A1..A12 for rows 0..11, B1..B12 for rows 12..23,
\* C1.. after that, starting again at A1 in every segment; the labels of one
\* segment are pairwise distinct and none is an overflow label.
C5_SynthesizedWells ==
    (Positioned /\ NoPositionColumn) =>
        /\ Len(well_positions) = Len(SegRows)
        /\ \A k \in 1..Len(well_positions) :
              /\ (k - 1 \in 0..11  => well_positions[k] = <<"A", k>>)
              /\ (k - 1 \in 12..23 => well_positions[k] = <<"B", k - 12>>)
              /\ (k - 1 \in 24..35 => well_positions[k] = <<"C", k - 24>>)
              /\ well_positions[k][1] # "X"
        /\ \A k1, k2 \in 1..Len(well_positions) :
              k1 # k2 => well_positions[k1] # well_positions[k2]

\* C5 witness: the second segment, following a full first one that ended at
\* C4, is labelled from A1 again and reaches row B
C5_Witness ==
    /\ Positioned
    /\ NoPositionColumn
    /\ segment_idx = 1
    /\ Len(segments[1].rows) = 28
    /\ Len(well_positions) >= 24
    /\ well_positions[1] = <<"A", 1>>
    /\ well_positions[13] = <<"B", 1>>

\* ---------------------------------------------------------------------
\* generate_protocol_steps_for_segment has returned for the current segment
StepsGenerated == pc = "write"

LowVolume  == <<"pipette_right", "p20_single_gen2">>
HighVolume == <<"pipette_left", "p300_single_gen2">>

\* the instrument written into one step
InstrumentOf(step) == <<step.pipette, step.pipette_type>>

\* C6: select_pipette sends 5, 20 and every other volume <= 20 to the
\* low-volume instrument and 20.0001 and every other volume above 20 to the
\* high-volume one; every request of a segment becomes one step, and each
\* step, in the working list and in every file written, carries the
\* instrument this rule gives for its volume.
C6_RoutingByVolume ==
    /\ select_pipette(<<5, 1>>) = LowVolume
    /\ select_pipette(<<20, 1>>) = LowVolume
    /\ select_pipette(<<200001, 10000>>) = HighVolume
    /\ StepsGenerated =>
          /\ Len(steps) = Len(transfers)
          /\ \A k \in 1..Len(steps) :
                /\ steps[k].volume = transfers[k].volume
                /\ steps[k].dest = transfers[k].wells
                /\ InstrumentOf(steps[k]) \in {LowVolume, HighVolume}
                /\ InstrumentOf(steps[k]) = LowVolume
                      <=> steps[k].volume[1] <= 20 * steps[k].volume[2]
                /\ InstrumentOf(steps[k]) = HighVolume
                      <=> steps[k].volume[1] > 20 * steps[k].volume[2]
    /\ \A f \in fs : \A k \in 1..Len(f.code.steps) :
          LET step == f.code.steps[k]
          IN  InstrumentOf(step) =
                IF step.volume[1] <= 20 * step.volume[2] THEN LowVolume ELSE HighVolume

\* C6 witness: one segment has steps of 5, exactly 20 and 20.0001
C6_Witness ==
    /\ StepsGenerated
    /\ \E a, b, c \in 1..Len(steps) :
          /\ steps[a].volume = <<5, 1>> /\ InstrumentOf(steps[a]) = LowVolume
          /\ steps[b].volume = <<20, 1>> /\ InstrumentOf(steps[b]) = LowVolume
          /\ steps[c].volume = <<200001, 10000>> /\ InstrumentOf(steps[c]) = HighVolume

\* filter_valid_wells has returned in this run
Filtered ==
    pc \in {"identify", "segment", "header", "wells", "group", "steps", "write", "return"}
    \/ returned = "list"

\* the positions of the columns whose lowercased name contains 'water'
WaterColumnPositions ==
    {j \in 1..Len(df.columns) : Contains(TokWater, Lower(df.columns[j]))}

\* the first of them
DiluentColumn ==
    CHOOSE j \in WaterColumnPositions : \A j2 \in WaterColumnPositions : j <= j2

Identified ==
    pc \in {"segment", "header", "wells", "group", "steps", "write", "return"}
    \/ returned = "list"

\* the positions of the columns matching any token of liquid l
MatchingPositions(l) ==
    {j \in 1..Len(df_filtered.columns) :
        \E tok \in Patterns[l] : Contains(tok, Lower(df_filtered.columns[j]))}

\* C8 (state part): every reagent with a matching column is bound to the first
\* column, in table order, that contains any of its tokens; a reagent without
\* one is absent from the mapping, and the run goes on.
C8_BindingIsFirstMatch ==
    Identified =>
        /\ returned # "None"
        /\ DOMAIN columns = {l \in {"glycine", "nacl", "tris", "water"} :
                                MatchingPositions(l) # {}}
        /\ \A l \in DOMAIN columns :
              \E j \in MatchingPositions(l) :
                  /\ \A j2 \in MatchingPositions(l) : j <= j2
                  /\ columns[l] = df_filtered.columns[j]

\* C8 (step part): the mapping is assigned by the one call of identify_columns
\* and by nothing else, and that call is made once, right after filtering.
C8_BindingAssignedOnce ==
    /\ columns' # columns => (pc = "identify" /\ pc' = "segment")
    /\ pc' = "identify" => pc = "filter"
    /\ pc = "group" => transfers' = group_by_reagent_and_volume(df_segment, columns',
                                                               well_positions)

\* C8: the binding is the first-match binding, computed once per table and
\* used unchanged for every segment.
C8_ColumnBinding == []C8_BindingIsFirstMatch /\ [][C8_BindingAssignedOnce]_vars

\* C8 witness: the second segment is processed with salt bound to the column
\* "Salt", which precedes the column "NaCl", and with glycine unbound
C8_Witness ==
    /\ pc = "write"
    /\ segment_idx = 1
    /\ "nacl" \in DOMAIN columns
    /\ columns["nacl"] = <<"S","a","l","t">>
    /\ \E j \in 2..Len(df_filtered.columns) : df_filtered.columns[j] = <<"N","a","C","l">>
    /\ "glycine" \notin DOMAIN columns
    /\ Len(steps) >= 1

\* ---------------------------------------------------------------------
\* C9 (as claimed): a run that ends with zero validated rows has zero
\* segments and zero programs, and main does not report it the way it reports
\* a processing failure ("failed", its report for an unreadable table).
C9_EmptyIsNotFailure ==
    (pc = "done" /\ returned = "list" /\ Len(Validated) = 0) =>
        /\ segments = <<>>
        /\ generated_files = <<>>
        /\ fs = {}
        /\ report # "failed"

\* the part of C9 the code does satisfy: zero validated rows give zero
\* segments, zero programs and a list (not None) as the return value
C9_EmptyYieldsNothing ==
    (Segmented /\ Len(Validated) = 0) =>
        /\ segments = <<>>
        /\ generated_files = <<>>
        /\ fs = {}
        /\ pc \in {"return", "report", "done"}

\* a table with rows, none of them valid, has been processed to the end
C9_Witness ==
    /\ pc = "done"
    /\ returned = "list"
    /\ Len(df.rows) > 0
    /\ Len(Validated) = 0

\* ---------------------------------------------------------------------
\* the loop body is at or past the call of generate_protocol_steps_for_segment
InSegment == pc \in {"wells", "group", "steps", "write"}

\* the segment number written into a program
SegmentOf(code) == code.banner[2]

\* what one segment's rows and the column binding alone give as steps
StepsFromSegmentAlone(s) ==
    StepLoop(group_by_reagent_and_volume(ResetIndex(segments[s]), columns,
                                         get_well_positions(segments[s])), 1, 1)

\* C10 (state part): the segment in work is labelled with its number, the
\* total and its row count and starts from empty working lists; its steps are
\* numbered 1, 2, ...; the files written so far are those of already finished
\* segments, in ascending order, each at a path of its own, each labelled with
\* its segment's number, the total and its row count, with steps numbered from
\* 1 that are determined by the segment's own rows and the column binding.
C10_SegmentOutputs ==
    /\ InSegment =>
          /\ segment_idx + 1 \in 1..Len(segments)
          /\ total_segments = Len(segments)
          /\ protocol_code.banner =
                <<"SEGMENT ", segment_idx + 1, "/", Len(segments), " (",
                  Len(SegRows), " wells)">>
          /\ protocol_code.header.description =
                <<"(Segment ", segment_idx + 1, ": ", Len(SegRows), " wells)">>
          /\ Len(segments) > 1 =>
                protocol_code.header.protocol_name[3] = segment_idx + 1
                /\ protocol_code.header.protocol_name[5] = Len(segments)
    /\ pc = "wells" =>
          /\ df_segment = segments[segment_idx + 1]
          /\ well_positions = <<>> /\ transfers = <<>> /\ steps = <<>>
    /\ pc = "write" => \A k \in 1..Len(steps) : steps[k].step_num = k
    /\ Segmented =>
          /\ Cardinality(fs) = Len(generated_files)
          /\ {f.path : f \in fs} = Range(generated_files)
          /\ \A f \in fs :
                LET s == SegmentOf(f.code)
                IN  /\ s \in 1..segment_idx
                    /\ f.code.banner[4] = Len(segments)
                    /\ f.code.banner[6] = Len(segments[s].rows)
                    /\ f.code.header.description[2] = s
                    /\ f.code.header.description[4] = Len(segments[s].rows)
                    /\ \A k \in 1..Len(f.code.steps) : f.code.steps[k].step_num = k
                    /\ f.code.steps = StepsFromSegmentAlone(s)
          /\ \A f, g \in fs : f # g => SegmentOf(f.code) # SegmentOf(g.code)
          /\ \A i, j \in 1..Len(generated_files) :
                i < j =>
                    \A f, g \in fs :
                        (f.path = generated_files[i] /\ g.path = generated_files[j])
                            => SegmentOf(f.code) < SegmentOf(g.code)

\* C10 (step part): a segment goes through header, wells, grouping, steps and
\* write in that order; only the write ends it, moving to the next segment
\* number or, after the last, to the return; a write adds the file of the
\* segment in work and touches no other file.
C10_SegmentSteps ==
    /\ pc = "header" => pc' = "wells"
    /\ pc = "wells" => pc' = "group"
    /\ pc = "group" => pc' = "steps"
    /\ pc = "steps" => pc' = "write"
    /\ pc = "write" =>
          pc' = IF segment_idx + 1 < Len(segments) THEN "header" ELSE "return"
    /\ segment_idx' # segment_idx => (pc = "write" /\ segment_idx' = segment_idx + 1)
    /\ pc \in {"header", "wells", "group", "steps"} => segment_idx' = segment_idx
    /\ fs' # fs =>
          /\ pc = "write"
          /\ fs \subseteq fs'
          /\ \A f \in fs' \ fs : SegmentOf(f.code) = segment_idx + 1

\* C10: segments are processed one after the other in ascending order, each
\* labelled, numbered and written on its own.
C10_SegmentPipeline == []C10_SegmentOutputs /\ [][C10_SegmentSteps]_vars

\* C10 witness: three segments were written, each with at least two steps
C10_Witness ==
    /\ pc = "done"
    /\ Cardinality(fs) = 3
    /\ \A f \in fs : Len(f.code.steps) >= 2

\* ---------------------------------------------------------------------
\* C11 (as claimed): the binding is injective, no column is bound to two
\* reagents; hence no two requests of one segment for different reagents
\* (different source tubes) draw their volumes from the same column.
C11_BindingInjective ==
    /\ Identified =>
          \A l1, l2 \in DOMAIN columns : l1 # l2 => columns[l1] # columns[l2]
    /\ Grouped =>
          \A ti, tj \in 1..Len(transfers) :
              transfers[ti].source_tube # transfers[tj].source_tube
                  => columns[transfers[ti].reagent] # columns[transfers[tj].reagent]

\* the binding is injective on every table whose column names each contain
\* tokens of at most one reagent
C11_InjectiveWithoutSharedTokens ==
    (Identified /\ \A j \in 1..Len(df_filtered.columns) :
                      Cardinality({l \in {"glycine", "nacl", "tris", "water"} :
                                      j \in MatchingPositions(l)}) <= 1)
        => \A l1, l2 \in DOMAIN columns : l1 # l2 => columns[l1] # columns[l2]

\* C11 witness: the column "Tris_0.5M" is bound to tris (token '0.5m') and to
\* nacl (token '5m'), and one segment has a request from tube B1 and a request
\* from tube A2 with the same volume for the same wells
C11_Witness ==
    /\ Grouped
    /\ {"tris", "nacl"} \subseteq DOMAIN columns
    /\ columns["tris"] = <<"T","r","i","s","_","0",".","5","M">>
    /\ columns["nacl"] = columns["tris"]
    /\ \E ti, tj \in 1..Len(transfers) :
          /\ transfers[ti].source_tube = "B1"
          /\ transfers[tj].source_tube = "A2"
          /\ transfers[ti].volume = transfers[tj].volume
          /\ transfers[ti].wells = transfers[tj].wells

====
